---- MODULE Spec2Model ----
(***************************************************************************)
(* Model of the render targets (graphics/renderers/mod.rs) and of the      *)
(* world map with its day/night lighting functions (world/map/mod.rs).     *)
(*                                                                         *)
(* Four specifications share the variables of this module:                 *)
(*   TargetSpec  the four render targets and their pass lifecycle,          *)
(*   MapSpec     one Map and the calls its methods make on the renderer,    *)
(*               the audio engine, its objects and the entities,            *)
(*   LightSpec   the pure lighting functions applied to sampled inputs,     *)
(*   ReadSpec    the picker value read-back and its completion.             *)
(***************************************************************************)
EXTENDS Integers, Sequences, FiniteSets, TLC

VARIABLES
    deferred,       \* DeferredRenderTarget
    picker,         \* PickerRenderTarget
    single_color,   \* SingleRenderTarget<F, S, wgpu::Color>
    single_depth,   \* SingleRenderTarget<F, S, f32>
    calls,          \* the calls made on the targets since construction, with results
    map,            \* the Map
    frustum_query_result,   \* the caller's Vec<ObjectKey>, kept from frame to frame
    map_call,       \* the latest call of a Map method: arguments, result, panic
    draws,          \* the calls that method made on the renderer, audio engine, objects, entities
    nan_sign,       \* the sign bit the build gives a NaN that arithmetic produces
    light_args,     \* the light colour, light intensity and day_timer at hand
    light_call,     \* the latest call of a lighting function: arguments and result
    return_values,  \* the Arc<AtomicU32> cells callers hand to the picker target
    queued_reads    \* the read-backs queued on the picker value buffer, not yet completed

targetVars == <<deferred, picker, single_color, single_depth, calls>>

mapVars == <<map, frustum_query_result, map_call, draws>>

lightVars == <<nan_sign, light_args, light_call>>

readVars == <<return_values, queued_reads>>

vars == <<targetVars, mapVars, lightVars, readVars>>

(***************************************************************************)
(* Bounds.                                                                 *)
(***************************************************************************)
\* Number of target calls a behaviour records.
MaxCalls == 4
\* Number of distinct sub-renderer tags.
NumTags == 2

Tags == 1..NumTags
\* Largest map width and height, in tiles.
MaxWidth == 2
MaxHeight == 2
\* Number of object keys.
MaxKeys == 2
\* Largest number of entities handed to render_entities.
MaxEntities == 3
\* Largest number of light, sound and effect sources of a map.
MaxSources == 2
\* Number of atomic cells callers hold, largest number of read-backs queued at
\* a time, and largest picker value.
NumCells == 2
MaxQueued == 2
MaxPickerValue == 2

(***************************************************************************)
(* Option<T>: None is the empty sequence, Some(x) the one-element one.     *)
(***************************************************************************)
None == <<>>

Some(x) == <<x>>

\* OptionExt::contains: Some(y) with y == x, by value.
OptionContains(option, x) == Len(option) = 1 /\ option[1] = x

\* Option::unwrap: the value of Some, a panic on None.
Unwrap(option) ==
    IF option = None
    THEN [panicked |-> TRUE]
    ELSE [panicked |-> FALSE, value |-> option[1]]

\* Option::unwrap_or_default
UnwrapOrDefault(option, default) == IF option = None THEN default ELSE option[1]

\* cgmath vectors
Vector2(x, y) == [x |-> x, y |-> y]

Vector3(x, y, z) == <<x, y, z>>

(***************************************************************************)
(* f32 values, kept to four significant decimal digits: a number is        *)
(* (-1)^neg * m * 10^e with m = 0 or 1000 <= m <= 9999; zeros, infinities   *)
(* and NaNs carry their sign bit.                                          *)
(***************************************************************************)
Num(neg, m, e) == [cls |-> "num", neg |-> neg, m |-> m, e |-> e]

NaN(neg) == [cls |-> "nan", neg |-> neg, m |-> 0, e |-> 0]

Inf(neg) == [cls |-> "inf", neg |-> neg, m |-> 0, e |-> 0]

\* The NaN an arithmetic operation produces; its sign bit is the build's choice.
ArithNaN == NaN(nan_sign)

IsNaN(x) == x.cls = "nan"

IsZero(x) == x.cls = "num" /\ x.m = 0

RECURSIVE Pow10(_)
Pow10(n) == IF n = 0 THEN 1 ELSE 10 * Pow10(n - 1)

\* Brings a magnitude back to four digits.
RECURSIVE Normal(_, _, _)
Normal(neg, m, e) ==
    IF m = 0 THEN Num(neg, 0, 0)
    ELSE IF m >= 10000 THEN Normal(neg, m \div 10, e + 1)
    ELSE IF m < 1000 THEN Normal(neg, m * 10, e - 1)
    ELSE Num(neg, m, e)

\* f32::abs, unary minus and f32::is_sign_positive act on the sign bit alone.
Abs(x) == [x EXCEPT !.neg = FALSE]

Neg(x) == [x EXCEPT !.neg = ~x.neg]

IsSignPositive(x) == ~x.neg

\* x * y
Mul(x, y) ==
    IF IsNaN(x) \/ IsNaN(y) THEN ArithNaN
    ELSE IF x.cls = "inf" \/ y.cls = "inf"
         THEN IF IsZero(x) \/ IsZero(y) THEN ArithNaN ELSE Inf(x.neg # y.neg)
    ELSE Normal(x.neg # y.neg, x.m * y.m, x.e + y.e)

\* x / y
Div(x, y) ==
    IF IsNaN(x) \/ IsNaN(y) THEN ArithNaN
    ELSE IF x.cls = "inf" THEN IF y.cls = "inf" THEN ArithNaN ELSE Inf(x.neg # y.neg)
    ELSE IF y.cls = "inf" THEN Num(x.neg # y.neg, 0, 0)
    ELSE IF IsZero(y) THEN IF IsZero(x) THEN ArithNaN ELSE Inf(x.neg # y.neg)
    ELSE Normal(x.neg # y.neg, (x.m * 10000) \div y.m, x.e - y.e - 4)

\* x + y; an addend more than four digits below the other is lost.
Add(x, y) ==
    IF IsNaN(x) \/ IsNaN(y) THEN ArithNaN
    ELSE IF x.cls = "inf" /\ y.cls = "inf" THEN IF x.neg = y.neg THEN x ELSE ArithNaN
    ELSE IF x.cls = "inf" THEN x
    ELSE IF y.cls = "inf" THEN y
    ELSE IF IsZero(x) THEN IF IsZero(y) THEN Num(x.neg /\ y.neg, 0, 0) ELSE y
    ELSE IF IsZero(y) THEN x
    ELSE IF x.e - y.e > 4 THEN x
    ELSE IF y.e - x.e > 4 THEN y
    ELSE LET e == IF x.e < y.e THEN x.e ELSE y.e
             sx == (IF x.neg THEN -1 ELSE 1) * x.m * Pow10(x.e - e)
             sy == (IF y.neg THEN -1 ELSE 1) * y.m * Pow10(y.e - e)
             sum == sx + sy
         IN IF sum = 0 THEN Num(FALSE, 0, 0)
            ELSE IF sum < 0 THEN Normal(TRUE, -sum, e) ELSE Normal(FALSE, sum, e)

Sub(x, y) == Add(x, Neg(y))

\* |x| < |y| for values that are not NaN
MagLess(x, y) ==
    IF x.cls = "inf" THEN FALSE
    ELSE IF y.cls = "inf" THEN TRUE
    ELSE IF IsZero(y) THEN FALSE
    ELSE IF IsZero(x) THEN TRUE
    ELSE x.e < y.e \/ (x.e = y.e /\ x.m < y.m)

\* x < y; false when either is NaN, and -0.0 is not below +0.0
Less(x, y) ==
    IF IsNaN(x) \/ IsNaN(y) THEN FALSE
    ELSE IF x.neg /\ ~y.neg THEN ~(IsZero(x) /\ IsZero(y))
    ELSE IF ~x.neg /\ y.neg THEN FALSE
    ELSE IF x.neg THEN MagLess(y, x)
    ELSE MagLess(x, y)

\* f32::min: the other operand when one is NaN
Min(x, y) ==
    IF IsNaN(x) THEN y
    ELSE IF IsNaN(y) THEN x
    ELSE IF Less(y, x) THEN y ELSE x

\* `f32 as u8`: truncates toward zero, saturates at 0 and 255, NaN gives 0
AsU8(x) ==
    IF IsNaN(x) THEN 0
    ELSE IF x.neg THEN 0
    ELSE IF x.cls = "inf" THEN 255
    ELSE IF x.m = 0 THEN 0
    ELSE IF x.e >= 0 THEN 255
    ELSE IF -x.e > 4 THEN 0
    ELSE LET truncated == x.m \div Pow10(-x.e)
         IN IF truncated > 255 THEN 255 ELSE truncated

\* `u8 as f32`
FromU8(n) == Normal(FALSE, n, 0)

\* Literals of the lighting functions
Zero == Num(FALSE, 0, 0)

One == Num(FALSE, 1000, -3)

Two == Num(FALSE, 2000, -3)

\* std::f32::consts::PI and FRAC_PI_2
PI == Num(FALSE, 3142, -3)

FRAC_PI_2 == Num(FALSE, 1571, -3)

\* The day_timer values sampled: 0, 0.5, pi/2, 2, pi, 4, 3pi/2, 5.5, 2pi, 100.
FiniteDayTimers ==
    {Num(FALSE, 0, 0), Num(FALSE, 5000, -4), Num(FALSE, 1571, -3), Num(FALSE, 2000, -3),
     Num(FALSE, 3142, -3), Num(FALSE, 4000, -3), Num(FALSE, 4712, -3), Num(FALSE, 5500, -3),
     Num(FALSE, 6283, -3), Num(FALSE, 1000, -1)}

DayTimers == FiniteDayTimers \cup {NaN(FALSE), Inf(FALSE)}

\* Rows <<day_timer, offset, sin, cos>>: the f32 sine and cosine of the f32
\* sum day_timer + offset, for the sampled day_timers and the three offsets
\* the lighting functions use (0, PI, -FRAC_PI_2).
TrigTable ==
    {<<Num(FALSE, 0, 0), Num(FALSE, 0, 0), Num(FALSE, 0, 0), Num(FALSE, 1000, -3)>>,
     <<Num(FALSE, 0, 0), Num(FALSE, 3142, -3), Num(TRUE, 8742, -11), Num(TRUE, 1000, -3)>>,
     <<Num(FALSE, 0, 0), Num(TRUE, 1571, -3), Num(TRUE, 1000, -3), Num(TRUE, 4371, -11)>>,
     <<Num(FALSE, 5000, -4), Num(FALSE, 0, 0), Num(FALSE, 4794, -4), Num(FALSE, 8776, -4)>>,
     <<Num(FALSE, 5000, -4), Num(FALSE, 3142, -3), Num(TRUE, 4794, -4), Num(TRUE, 8776, -4)>>,
     <<Num(FALSE, 5000, -4), Num(TRUE, 1571, -3), Num(TRUE, 8776, -4), Num(FALSE, 4794, -4)>>,
     <<Num(FALSE, 1571, -3), Num(FALSE, 0, 0), Num(FALSE, 1000, -3), Num(TRUE, 4371, -11)>>,
     <<Num(FALSE, 1571, -3), Num(FALSE, 3142, -3), Num(TRUE, 1000, -3), Num(FALSE, 1192, -11)>>,
     <<Num(FALSE, 1571, -3), Num(TRUE, 1571, -3), Num(FALSE, 0, 0), Num(FALSE, 1000, -3)>>,
     <<Num(FALSE, 2000, -3), Num(FALSE, 0, 0), Num(FALSE, 9093, -4), Num(TRUE, 4161, -4)>>,
     <<Num(FALSE, 2000, -3), Num(FALSE, 3142, -3), Num(TRUE, 9093, -4), Num(FALSE, 4161, -4)>>,
     <<Num(FALSE, 2000, -3), Num(TRUE, 1571, -3), Num(FALSE, 4161, -4), Num(FALSE, 9093, -4)>>,
     <<Num(FALSE, 3142, -3), Num(FALSE, 0, 0), Num(TRUE, 8742, -11), Num(TRUE, 1000, -3)>>,
     <<Num(FALSE, 3142, -3), Num(FALSE, 3142, -3), Num(FALSE, 1748, -10), Num(FALSE, 1000, -3)>>,
     <<Num(FALSE, 3142, -3), Num(TRUE, 1571, -3), Num(FALSE, 1000, -3), Num(TRUE, 4371, -11)>>,
     <<Num(FALSE, 4000, -3), Num(FALSE, 0, 0), Num(TRUE, 7568, -4), Num(TRUE, 6536, -4)>>,
     <<Num(FALSE, 4000, -3), Num(FALSE, 3142, -3), Num(FALSE, 7568, -4), Num(FALSE, 6536, -4)>>,
     <<Num(FALSE, 4000, -3), Num(TRUE, 1571, -3), Num(FALSE, 6536, -4), Num(TRUE, 7568, -4)>>,
     <<Num(FALSE, 4712, -3), Num(FALSE, 0, 0), Num(TRUE, 1000, -3), Num(FALSE, 1192, -11)>>,
     <<Num(FALSE, 4712, -3), Num(FALSE, 3142, -3), Num(FALSE, 1000, -3), Num(TRUE, 3378, -10)>>,
     <<Num(FALSE, 4712, -3), Num(TRUE, 1571, -3), Num(FALSE, 1510, -10), Num(TRUE, 1000, -3)>>,
     <<Num(FALSE, 5500, -3), Num(FALSE, 0, 0), Num(TRUE, 7055, -4), Num(FALSE, 7087, -4)>>,
     <<Num(FALSE, 5500, -3), Num(FALSE, 3142, -3), Num(FALSE, 7055, -4), Num(TRUE, 7087, -4)>>,
     <<Num(FALSE, 5500, -3), Num(TRUE, 1571, -3), Num(TRUE, 7087, -4), Num(TRUE, 7055, -4)>>,
     <<Num(FALSE, 6283, -3), Num(FALSE, 0, 0), Num(FALSE, 1748, -10), Num(FALSE, 1000, -3)>>,
     <<Num(FALSE, 6283, -3), Num(FALSE, 3142, -3), Num(TRUE, 2385, -11), Num(TRUE, 1000, -3)>>,
     <<Num(FALSE, 6283, -3), Num(TRUE, 1571, -3), Num(TRUE, 1000, -3), Num(FALSE, 1192, -11)>>,
     <<Num(FALSE, 1000, -1), Num(FALSE, 0, 0), Num(TRUE, 5064, -4), Num(FALSE, 8623, -4)>>,
     <<Num(FALSE, 1000, -1), Num(FALSE, 3142, -3), Num(FALSE, 5064, -4), Num(TRUE, 8623, -4)>>,
     <<Num(FALSE, 1000, -1), Num(TRUE, 1571, -3), Num(TRUE, 8623, -4), Num(TRUE, 5064, -4)>>}

\* Rows <<x, y, x.powf(y)>> for the sines above and the exponents 2 - p.
PowfTable ==
    {<<Num(FALSE, 8742, -11), Num(FALSE, 1200, -3), Num(FALSE, 3388, -12)>>,
     <<Num(FALSE, 1748, -10), Num(FALSE, 1200, -3), Num(FALSE, 7784, -12)>>,
     <<Num(FALSE, 4794, -4), Num(FALSE, 1200, -3), Num(FALSE, 4139, -4)>>,
     <<Num(FALSE, 5064, -4), Num(FALSE, 1200, -3), Num(FALSE, 4419, -4)>>,
     <<Num(FALSE, 7055, -4), Num(FALSE, 1200, -3), Num(FALSE, 6580, -4)>>,
     <<Num(FALSE, 7568, -4), Num(FALSE, 1200, -3), Num(FALSE, 7158, -4)>>,
     <<Num(FALSE, 9093, -4), Num(FALSE, 1200, -3), Num(FALSE, 8922, -4)>>,
     <<Num(FALSE, 1000, -3), Num(FALSE, 1200, -3), Num(FALSE, 1000, -3)>>,
     <<Num(FALSE, 0, 0), Num(FALSE, 1200, -3), Num(FALSE, 0, 0)>>,
     <<Num(FALSE, 2385, -11), Num(FALSE, 1700, -3), Num(FALSE, 1101, -16)>>,
     <<Num(FALSE, 8742, -11), Num(FALSE, 1700, -3), Num(FALSE, 1002, -15)>>,
     <<Num(FALSE, 1748, -10), Num(FALSE, 1700, -3), Num(FALSE, 3255, -15)>>,
     <<Num(FALSE, 4794, -4), Num(FALSE, 1700, -3), Num(FALSE, 2866, -4)>>,
     <<Num(FALSE, 5064, -4), Num(FALSE, 1700, -3), Num(FALSE, 3145, -4)>>,
     <<Num(FALSE, 7055, -4), Num(FALSE, 1700, -3), Num(FALSE, 5527, -4)>>,
     <<Num(FALSE, 7568, -4), Num(FALSE, 1700, -3), Num(FALSE, 6227, -4)>>,
     <<Num(FALSE, 9093, -4), Num(FALSE, 1700, -3), Num(FALSE, 8507, -4)>>,
     <<Num(FALSE, 1000, -3), Num(FALSE, 1700, -3), Num(FALSE, 1000, -3)>>,
     <<Num(FALSE, 0, 0), Num(FALSE, 1700, -3), Num(FALSE, 0, 0)>>,
     <<Num(FALSE, 8742, -11), Num(FALSE, 1750, -3), Num(FALSE, 4445, -16)>>,
     <<Num(FALSE, 1748, -10), Num(FALSE, 1750, -3), Num(FALSE, 1495, -15)>>,
     <<Num(FALSE, 4794, -4), Num(FALSE, 1750, -3), Num(FALSE, 2762, -4)>>,
     <<Num(FALSE, 5064, -4), Num(FALSE, 1750, -3), Num(FALSE, 3040, -4)>>,
     <<Num(FALSE, 7055, -4), Num(FALSE, 1750, -3), Num(FALSE, 5431, -4)>>,
     <<Num(FALSE, 7568, -4), Num(FALSE, 1750, -3), Num(FALSE, 6141, -4)>>,
     <<Num(FALSE, 9093, -4), Num(FALSE, 1750, -3), Num(FALSE, 8467, -4)>>,
     <<Num(FALSE, 1000, -3), Num(FALSE, 1750, -3), Num(FALSE, 1000, -3)>>,
     <<Num(FALSE, 0, 0), Num(FALSE, 1750, -3), Num(FALSE, 0, 0)>>,
     <<Num(FALSE, 8742, -11), Num(FALSE, 1800, -3), Num(FALSE, 1972, -16)>>,
     <<Num(FALSE, 1748, -10), Num(FALSE, 1800, -3), Num(FALSE, 6867, -16)>>,
     <<Num(FALSE, 4794, -4), Num(FALSE, 1800, -3), Num(FALSE, 2663, -4)>>,
     <<Num(FALSE, 5064, -4), Num(FALSE, 1800, -3), Num(FALSE, 2938, -4)>>,
     <<Num(FALSE, 7055, -4), Num(FALSE, 1800, -3), Num(FALSE, 5338, -4)>>,
     <<Num(FALSE, 7568, -4), Num(FALSE, 1800, -3), Num(FALSE, 6056, -4)>>,
     <<Num(FALSE, 9093, -4), Num(FALSE, 1800, -3), Num(FALSE, 8427, -4)>>,
     <<Num(FALSE, 1000, -3), Num(FALSE, 1800, -3), Num(FALSE, 1000, -3)>>,
     <<Num(FALSE, 0, 0), Num(FALSE, 1800, -3), Num(FALSE, 0, 0)>>,
     <<Num(FALSE, 8742, -11), Num(FALSE, 2000, -3), Num(FALSE, 7643, -18)>>,
     <<Num(FALSE, 1748, -10), Num(FALSE, 2000, -3), Num(FALSE, 3057, -17)>>,
     <<Num(FALSE, 4794, -4), Num(FALSE, 2000, -3), Num(FALSE, 2298, -4)>>,
     <<Num(FALSE, 5064, -4), Num(FALSE, 2000, -3), Num(FALSE, 2564, -4)>>,
     <<Num(FALSE, 7055, -4), Num(FALSE, 2000, -3), Num(FALSE, 4978, -4)>>,
     <<Num(FALSE, 7568, -4), Num(FALSE, 2000, -3), Num(FALSE, 5728, -4)>>,
     <<Num(FALSE, 9093, -4), Num(FALSE, 2000, -3), Num(FALSE, 8268, -4)>>,
     <<Num(FALSE, 1000, -3), Num(FALSE, 2000, -3), Num(FALSE, 1000, -3)>>,
     <<Num(FALSE, 0, 0), Num(FALSE, 2000, -3), Num(FALSE, 0, 0)>>}

\* (day_timer + offset).sin()
SinOfSum(day_timer, offset) ==
    IF day_timer.cls # "num" \/ offset.cls # "num" THEN ArithNaN
    ELSE (CHOOSE row \in TrigTable : row[1] = day_timer /\ row[2] = offset)[3]

\* (day_timer + offset).cos()
CosOfSum(day_timer, offset) ==
    IF day_timer.cls # "num" \/ offset.cls # "num" THEN ArithNaN
    ELSE (CHOOSE row \in TrigTable : row[1] = day_timer /\ row[2] = offset)[4]

\* x.powf(y), for x >= 0 or NaN
Powf(x, y) ==
    IF IsNaN(x) \/ IsNaN(y) THEN ArithNaN
    ELSE (CHOOSE row \in PowfTable : row[1] = x /\ row[2] = y)[3]

(***************************************************************************)
(* Day/night lighting functions                                            *)
(***************************************************************************)
\* Color: three f32 channels.
Color(red, green, blue) == [red |-> red, green |-> green, blue |-> blue]

\* Color::rgb_u8: each channel is the u8 divided by 255.
RgbU8(red, green, blue) ==
    Color(Div(FromU8(red), Num(FALSE, 2550, -1)),
          Div(FromU8(green), Num(FALSE, 2550, -1)),
          Div(FromU8(blue), Num(FALSE, 2550, -1)))

\* Vector3<f32> * f32
Scale(vector, factor) ==
    Vector3(Mul(vector[1], factor), Mul(vector[2], factor), Mul(vector[3], factor))

get_value(day_timer, offset, p) ==
    LET sin == SinOfSum(day_timer, offset)
    IN Div(Powf(Abs(sin), Sub(Two, p)), sin)

get_channels(day_timer, offset, ps) ==
    LET red == get_value(day_timer, offset, ps[1])
        green == get_value(day_timer, offset, ps[2])
        blue == get_value(day_timer, offset, ps[3])
    IN Vector3(red, green, blue)

color_from_channel(base_color, channels) ==
    RgbU8(AsU8(Mul(base_color.red, channels[1])),
          AsU8(Mul(base_color.green, channels[2])),
          AsU8(Mul(base_color.blue, channels[3])))

\* Vector3<f32> + Vector3<f32>
AddVector(left, right) ==
    Vector3(Add(left[1], right[1]), Add(left[2], right[2]), Add(left[3], right[3]))

\* Vector3::from_value
FromValue(value) == Vector3(value, value, value)

get_ambient_light_color(ambient_color, day_timer) ==
    LET sun_offset == Zero
        ambient_channels ==
            Scale(AddVector(Scale(get_channels(day_timer, sun_offset,
                                               <<Num(FALSE, 3000, -4), Num(FALSE, 2000, -4),
                                                 Num(FALSE, 2000, -4)>>),
                                  Num(FALSE, 5500, -4)),
                            FromValue(Num(FALSE, 6500, -4))),
                  Num(FALSE, 2550, -1))
    IN color_from_channel(ambient_color, ambient_channels)

\* Variant: the moon branch returns the scaled intensity without the cap.
get_directional_light_color_intensity_MoonUncapped(directional_color, intensity, day_timer) ==
    LET sun_offset == Zero
        moon_offset == PI
        directional_channels ==
            Scale(get_channels(day_timer, sun_offset,
                               <<Num(FALSE, 8000, -4), Zero, Num(FALSE, 2500, -4)>>),
                  Num(FALSE, 2550, -1))
        moon_channels ==
            Scale(get_channels(day_timer, moon_offset,
                               <<Num(FALSE, 3000, -4), Num(FALSE, 3000, -4), Num(FALSE, 3000, -4)>>),
                  Num(FALSE, 2550, -1))
    IN IF IsSignPositive(directional_channels[1])
       THEN <<color_from_channel(directional_color, directional_channels),
              Min(Mul(intensity, Num(FALSE, 1500, -3)), One)>>
       ELSE <<color_from_channel(RgbU8(150, 150, 255), moon_channels),
              Mul(intensity, Num(FALSE, 1500, -3))>>

get_directional_light_color_intensity(directional_color, intensity, day_timer) ==
    LET sun_offset == Zero
        moon_offset == PI
        directional_channels ==
            Scale(get_channels(day_timer, sun_offset,
                               <<Num(FALSE, 8000, -4), Zero, Num(FALSE, 2500, -4)>>),
                  Num(FALSE, 2550, -1))
        moon_channels ==
            Scale(get_channels(day_timer, moon_offset,
                               <<Num(FALSE, 3000, -4), Num(FALSE, 3000, -4), Num(FALSE, 3000, -4)>>),
                  Num(FALSE, 2550, -1))
    IN IF IsSignPositive(directional_channels[1])
       THEN <<color_from_channel(directional_color, directional_channels),
              Min(Mul(intensity, Num(FALSE, 1500, -3)), One)>>
       ELSE <<color_from_channel(RgbU8(150, 150, 255), moon_channels),
              Min(Mul(intensity, Num(FALSE, 1500, -3)), One)>>

\* Variant: the cosine is returned as it is on both branches.
get_light_direction_NoFlip(day_timer) ==
    LET sun_offset == Neg(FRAC_PI_2)
        c == CosOfSum(day_timer, sun_offset)
        s == SinOfSum(day_timer, sun_offset)
    IN IF IsSignPositive(c)
       THEN Vector3(s, c, Num(TRUE, 5000, -4))
       ELSE Vector3(s, c, Num(TRUE, 5000, -4))

get_light_direction(day_timer) ==
    LET sun_offset == Neg(FRAC_PI_2)
        c == CosOfSum(day_timer, sun_offset)
        s == SinOfSum(day_timer, sun_offset)
    IN IF IsSignPositive(c)
       THEN Vector3(s, c, Num(TRUE, 5000, -4))
       ELSE Vector3(s, Neg(c), Num(TRUE, 5000, -4))

\* A lighting function call with its arguments and its result.
LightCall(op, args, ret) == [op |-> op, args |-> args, ret |-> ret]

\* The light colours and intensities a map's light settings hold.
BaseColors ==
    {Color(One, One, One),
     Color(One, Num(FALSE, 5000, -4), Zero),
     Color(Two, One, Num(FALSE, 2500, -4)),
     Color(Num(TRUE, 1000, -3), Num(FALSE, 5000, -4), NaN(FALSE))}

Intensities ==
    {Zero, Num(FALSE, 5000, -4), Num(FALSE, 6667, -4), One, Two,
     Num(TRUE, 0, 0), Num(TRUE, 1000, -3), NaN(FALSE), Inf(FALSE), Inf(TRUE)}

GetDirectionalLightColorIntensity ==
    LET directional_color == light_args.color
        intensity == light_args.intensity
        day_timer == light_args.day_timer IN
    /\ light_call' = LightCall("get_directional_light_color_intensity",
                               <<directional_color, intensity, day_timer>>,
                               get_directional_light_color_intensity(directional_color, intensity, day_timer))
    /\ UNCHANGED <<nan_sign, light_args, targetVars, mapVars, readVars>>

GetLightDirection ==
    LET day_timer == light_args.day_timer IN
    /\ light_call' = LightCall("get_light_direction", <<day_timer>>,
                               get_light_direction(day_timer))
    /\ UNCHANGED <<nan_sign, light_args, targetVars, mapVars, readVars>>

\* The lighting variables while no lighting function is in use.
LightIdle ==
    /\ nan_sign = FALSE
    /\ light_args = [color |-> Color(One, One, One), intensity |-> One, day_timer |-> Zero]
    /\ light_call = LightCall("none", <<>>, None)

(***************************************************************************)
(* Pass descriptors: the load/store operations a pass start declares.      *)
(***************************************************************************)
Clear(value) == <<"Clear", value>>

Load == <<"Load">>

Operations(load, store) == [load |-> load, store |-> store]

\* wgpu::Color as <<r, g, b, a>>
OpaqueBlack == <<0, 0, 0, 1>>

TransparentZero == <<0, 0, 0, 0>>

\* The clear values the two SingleRenderTargets were constructed with.
ColorClearValue == <<0, 0, 0, 0>>

DepthClearValue == 0

\* One recorded call: the target, the method, its argument, the target's
\* bound_sub_renderer when the call was made, and what the call returned.
Call(target, op, arg, before, ret) ==
    [target |-> target, op |-> op, arg |-> arg, before |-> before, ret |-> ret]

(***************************************************************************)
(* DeferredRenderTarget                                                    *)
(***************************************************************************)
DeferredNew == [bound_sub_renderer |-> None]

\* Variant: reports a change only on the first bind, not on a change of tag.
DeferredBoundSubRenderer_FirstBindOnly(sub_renderer) ==
    LET already_bound == deferred.bound_sub_renderer # None IN
    /\ Len(calls) < MaxCalls
    /\ deferred' = [deferred EXCEPT !.bound_sub_renderer = Some(sub_renderer)]
    /\ calls' = Append(calls, Call("deferred", "bound_sub_renderer", sub_renderer, deferred.bound_sub_renderer, ~already_bound))
    /\ UNCHANGED <<picker, single_color, single_depth, mapVars, lightVars, readVars>>

DeferredBoundSubRenderer(sub_renderer) ==
    LET already_bound == OptionContains(deferred.bound_sub_renderer, sub_renderer) IN
    /\ Len(calls) < MaxCalls
    /\ deferred' = [deferred EXCEPT !.bound_sub_renderer = Some(sub_renderer)]
    /\ calls' = Append(calls, Call("deferred", "bound_sub_renderer", sub_renderer, deferred.bound_sub_renderer, ~already_bound))
    /\ UNCHANGED <<picker, single_color, single_depth, mapVars, lightVars, readVars>>

DeferredStartGeometryPass ==
    LET clear_color == OpaqueBlack
        render_pass == [label |-> "deferred render geometry",
                        color_attachments |-> <<Operations(Clear(clear_color), "Store"),
                                                Operations(Clear(clear_color), "Store"),
                                                Operations(Clear(clear_color), "Store")>>,
                        depth_stencil_attachment |-> Some(Operations(Clear(0), "Store"))] IN
    /\ Len(calls) < MaxCalls
    /\ deferred' = [deferred EXCEPT !.bound_sub_renderer = None]
    /\ calls' = Append(calls, Call("deferred", "start_geometry_pass", None, deferred.bound_sub_renderer, render_pass))
    /\ UNCHANGED <<picker, single_color, single_depth, mapVars, lightVars, readVars>>

\* start_screen_pass begins the pass and returns it; it assigns no field.
DeferredStartScreenPass ==
    LET clear_color == OpaqueBlack
        render_pass == [label |-> "deferred render screen",
                        color_attachments |-> <<Operations(Clear(clear_color), "Store")>>,
                        depth_stencil_attachment |-> None] IN
    /\ Len(calls) < MaxCalls
    /\ deferred' = deferred
    /\ calls' = Append(calls, Call("deferred", "start_screen_pass", None, deferred.bound_sub_renderer, render_pass))
    /\ UNCHANGED <<picker, single_color, single_depth, mapVars, lightVars, readVars>>

(***************************************************************************)
(* PickerRenderTarget                                                      *)
(***************************************************************************)
\* TextureFormat::target_pixel_byte_cost: the bytes one texel of a colour
\* target takes, None for a format that cannot be a colour target.
TargetPixelByteCost(format) ==
    CASE format = "R32Uint" -> Some(4)
      [] format = "Rgba8UnormSrgb" -> Some(4)
      [] format = "Rgba16Float" -> Some(8)
      [] format = "Rgba32Float" -> Some(16)
      [] format = "Depth32Float" -> None

output_color_format == "R32Uint"

depth_texture_format == "Depth32Float"

picker_value_size == Unwrap(TargetPixelByteCost(output_color_format)).value

\* Buffer::with_capacity: a buffer of the given capacity, zeroed as every new
\* GPU buffer is.
BufferWithCapacity(label, capacity) == [label |-> label, capacity |-> capacity, value |-> 0]

\* Variant: the capacity is one, the number of values the buffer holds.
PickerNew_OneElement ==
    [bound_sub_renderer |-> None, buffer |-> BufferWithCapacity("picker value", 1)]

PickerNew ==
    [bound_sub_renderer |-> None,
     buffer |-> BufferWithCapacity("picker value", picker_value_size)]

\* The cells and the values they and the picker value buffer hold.
Cells == 1..NumCells

PickerValues == 0..MaxPickerValue

\* Buffer::queue_read_u32: queues the mapping of the buffer for reading; the
\* value is copied into the cell when the mapping completes.
BufferQueueReadU32(queued, return_value) == Append(queued, return_value)

\* Variant: the value is copied into the cell by the call itself.
PickerQueueReadPickerValue_Immediate(return_value) ==
    /\ Len(queued_reads) < MaxQueued
    /\ return_values' = [return_values EXCEPT ![return_value] = picker.buffer.value]
    /\ queued_reads' = queued_reads
    /\ UNCHANGED <<targetVars, mapVars, lightVars>>

PickerQueueReadPickerValue(return_value) ==
    /\ Len(queued_reads) < MaxQueued
    /\ queued_reads' = BufferQueueReadU32(queued_reads, return_value)
    /\ return_values' = return_values
    /\ UNCHANGED <<targetVars, mapVars, lightVars>>

\* The sequence without its i-th element.
RemoveAt(sequence, i) == SubSeq(sequence, 1, i - 1) \o SubSeq(sequence, i + 1, Len(sequence))

\* The completion timeline: one queued mapping completes, and the value the
\* buffer holds is stored into its cell.
ReadCompletes(i) ==
    /\ i \in 1..Len(queued_reads)
    /\ return_values' = [return_values EXCEPT ![queued_reads[i]] = picker.buffer.value]
    /\ queued_reads' = RemoveAt(queued_reads, i)
    /\ UNCHANGED <<targetVars, mapVars, lightVars>>

\* The GPU timeline: a picker compute pass leaves a value in the buffer.
GpuWritesPickerValue(value) ==
    /\ picker.buffer.value # value
    /\ picker' = [picker EXCEPT !.buffer.value = value]
    /\ UNCHANGED <<deferred, single_color, single_depth, calls, mapVars, lightVars, readVars>>

\* The read variables while no read-back is in use.
ReadIdle ==
    /\ return_values = [cell \in Cells |-> 0]
    /\ queued_reads = <<>>


PickerStartRenderPass ==
    LET clear_color == TransparentZero
        render_pass == [label |-> "picker render",
                        color_attachments |-> <<Operations(Clear(clear_color), "Store")>>,
                        depth_stencil_attachment |-> Some(Operations(Clear(0), "Discard"))] IN
    /\ Len(calls) < MaxCalls
    /\ picker' = [picker EXCEPT !.bound_sub_renderer = None]
    /\ calls' = Append(calls, Call("picker", "start_render_pass", None, picker.bound_sub_renderer, render_pass))
    /\ UNCHANGED <<deferred, single_color, single_depth, mapVars, lightVars, readVars>>

\* Variant: begins the compute pass without forgetting the bound sub-renderer.
PickerStartComputePass_NoReset ==
    LET render_pass == [label |-> "picker compute"] IN
    /\ Len(calls) < MaxCalls
    /\ picker' = picker
    /\ calls' = Append(calls, Call("picker", "start_compute_pass", None, picker.bound_sub_renderer, render_pass))
    /\ UNCHANGED <<deferred, single_color, single_depth, mapVars, lightVars, readVars>>

PickerStartComputePass ==
    LET render_pass == [label |-> "picker compute"] IN
    /\ Len(calls) < MaxCalls
    /\ picker' = [picker EXCEPT !.bound_sub_renderer = None]
    /\ calls' = Append(calls, Call("picker", "start_compute_pass", None, picker.bound_sub_renderer, render_pass))
    /\ UNCHANGED <<deferred, single_color, single_depth, mapVars, lightVars, readVars>>

PickerBoundSubRenderer(sub_renderer) ==
    LET already_bound == OptionContains(picker.bound_sub_renderer, sub_renderer) IN
    /\ Len(calls) < MaxCalls
    /\ picker' = [picker EXCEPT !.bound_sub_renderer = Some(sub_renderer)]
    /\ calls' = Append(calls, Call("picker", "bound_sub_renderer", sub_renderer, picker.bound_sub_renderer, ~already_bound))
    /\ UNCHANGED <<deferred, single_color, single_depth, mapVars, lightVars, readVars>>

(***************************************************************************)
(* SingleRenderTarget<F, S, C>, for C = wgpu::Color and C = f32            *)
(***************************************************************************)
SingleNew(name, clear_value) ==
    [clear_value |-> clear_value, bound_sub_renderer |-> None, name |-> name]

\* bind_sub_renderer, on the colour-cleared target
SingleColorBindSubRenderer(sub_renderer) ==
    LET already_bound == OptionContains(single_color.bound_sub_renderer, sub_renderer) IN
    /\ Len(calls) < MaxCalls
    /\ single_color' = [single_color EXCEPT !.bound_sub_renderer = Some(sub_renderer)]
    /\ calls' = Append(calls, Call("single_color", "bind_sub_renderer", sub_renderer, single_color.bound_sub_renderer, ~already_bound))
    /\ UNCHANGED <<deferred, picker, single_depth, mapVars, lightVars, readVars>>

\* bind_sub_renderer, on the depth-cleared target
SingleDepthBindSubRenderer(sub_renderer) ==
    LET already_bound == OptionContains(single_depth.bound_sub_renderer, sub_renderer) IN
    /\ Len(calls) < MaxCalls
    /\ single_depth' = [single_depth EXCEPT !.bound_sub_renderer = Some(sub_renderer)]
    /\ calls' = Append(calls, Call("single_depth", "bind_sub_renderer", sub_renderer, single_depth.bound_sub_renderer, ~already_bound))
    /\ UNCHANGED <<deferred, picker, single_color, mapVars, lightVars, readVars>>

\* Variant: forgets the bound sub-renderer only when the attachment is cleared.
SingleColorStart_ResetOnClear(clear_interface) ==
    LET render_pass == [label |-> single_color.name,
                        color_attachments |-> <<Operations(IF clear_interface
                                                              THEN Clear(single_color.clear_value)
                                                              ELSE Load,
                                                           "Store")>>,
                        depth_stencil_attachment |-> None] IN
    /\ Len(calls) < MaxCalls
    /\ single_color' = IF clear_interface
                         THEN [single_color EXCEPT !.bound_sub_renderer = None]
                         ELSE single_color
    /\ calls' = Append(calls, Call("single_color", "start", clear_interface, single_color.bound_sub_renderer, render_pass))
    /\ UNCHANGED <<deferred, picker, single_depth, mapVars, lightVars, readVars>>

SingleColorStart(clear_interface) ==
    LET render_pass == [label |-> single_color.name,
                        color_attachments |-> <<Operations(IF clear_interface
                                                              THEN Clear(single_color.clear_value)
                                                              ELSE Load,
                                                           "Store")>>,
                        depth_stencil_attachment |-> None] IN
    /\ Len(calls) < MaxCalls
    /\ single_color' = [single_color EXCEPT !.bound_sub_renderer = None]
    /\ calls' = Append(calls, Call("single_color", "start", clear_interface, single_color.bound_sub_renderer, render_pass))
    /\ UNCHANGED <<deferred, picker, single_depth, mapVars, lightVars, readVars>>

\* Variant: keeps the depth attachment's contents instead of clearing them.
SingleDepthStart_Load ==
    LET render_pass == [label |-> single_depth.name,
                        color_attachments |-> <<>>,
                        depth_stencil_attachment |->
                            Some(Operations(Load, "Store"))] IN
    /\ Len(calls) < MaxCalls
    /\ single_depth' = [single_depth EXCEPT !.bound_sub_renderer = None]
    /\ calls' = Append(calls, Call("single_depth", "start", None, single_depth.bound_sub_renderer, render_pass))
    /\ UNCHANGED <<deferred, picker, single_color, mapVars, lightVars, readVars>>

SingleDepthStart ==
    LET render_pass == [label |-> single_depth.name,
                        color_attachments |-> <<>>,
                        depth_stencil_attachment |->
                            Some(Operations(Clear(single_depth.clear_value), "Store"))] IN
    /\ Len(calls) < MaxCalls
    /\ single_depth' = [single_depth EXCEPT !.bound_sub_renderer = None]
    /\ calls' = Append(calls, Call("single_depth", "start", None, single_depth.bound_sub_renderer, render_pass))
    /\ UNCHANGED <<deferred, picker, single_color, mapVars, lightVars, readVars>>

(***************************************************************************)
(* Map                                                                     *)
(***************************************************************************)
\* render_walk_indicator's constants
OFFSET == 1

TILE_SIZE == 5

Keys == 1..MaxKeys

EntityIds == 1..MaxEntities

\* The elements of a set of numbers in ascending order.
RECURSIVE Ascending(_)
Ascending(set) ==
    IF set = {} THEN <<>>
    ELSE LET least == CHOOSE k \in set : \A other \in set : k <= other
         IN <<least>> \o Ascending(set \ {least})

\* The tiles of a width x height map, row after row. Tile number i (from 0)
\* has the corner heights 10i+1 .. 10i+4, so that every corner of every tile
\* can be told from every other.
TileAt(i, flags) ==
    [flags |-> flags,
     upper_left_height |-> 10 * i + 1,
     upper_right_height |-> 10 * i + 2,
     lower_left_height |-> 10 * i + 3,
     lower_right_height |-> 10 * i + 4]

\* The object the slot-map holds under a key.
ObjectAt(key) == [object |-> key]

\* The i-th light source, sound source and effect source of a map file, each
\* different from every other element of its list.
LightSourceAt(i) == [light_source |-> i, position |-> Vector3(FromU8(i), Zero, Zero)]

SoundSourceAt(i) ==
    [sound_file |-> i,
     position |-> Vector3(FromU8(i), FromU8(2 * i), FromU8(3 * i)),
     range |-> FromU8(10 * i),
     volume |-> Normal(FALSE, 2500 * i, -4),
     cycle |-> IF i % 2 = 0 THEN Some(FromU8(i)) ELSE None]

EffectSourceAt(i) == [effect_source |-> i, position |-> Vector3(Zero, FromU8(i), Zero)]

\* ColorRGB of a map file, and its conversion into a Color.
ColorRGB(red, green, blue) == <<red, green, blue>>

IntoColor(color_rgb) == Color(color_rgb[1], color_rgb[2], color_rgb[3])

\* LightSettings of a map file; each field may be missing.
LightSettings(ambient_color, diffuse_color, light_intensity) ==
    [ambient_color |-> ambient_color, diffuse_color |-> diffuse_color,
     light_intensity |-> light_intensity]

\* WaterSettings of a map file; the level may be missing.
WaterSettings(water_level) == [water_level |-> water_level]

\* A map of one unwalkable tile, without objects, sources, water or light
\* settings.
BaseMap ==
    [width |-> 1, height |-> 1, tiles |-> <<TileAt(0, {})>>,
     objects |-> {}, object_kdtree |-> {},
     water_settings |-> None,
     light_settings |-> LightSettings(None, None, None),
     ground_vertex_buffer |-> "ground_vertex_buffer",
     water_vertex_buffer |-> None,
     ground_textures |-> "ground_textures",
     light_sources |-> <<>>, sound_sources |-> <<>>, effect_sources |-> <<>>]

\* The sets of walkable tiles of a map of n tiles: none, each tile alone, all.
WalkableSets(n) == {{}, 1..n} \cup {{i} : i \in 1..n}

\* Maps of every size with no, one or only walkable tiles.
TileMaps ==
    UNION {
        { [BaseMap EXCEPT !.width = width,
                          !.height = height,
                          !.tiles = [i \in 1..(width * height) |->
                                        TileAt(i - 1, IF i \in walkable THEN {"WALKABLE"} ELSE {})]] :
             walkable \in WalkableSets(width * height) }
        : width \in 1..MaxWidth, height \in 1..MaxHeight }

\* Maps with every set of objects and every set of keys in the spatial index.
ObjectMaps ==
    { [BaseMap EXCEPT !.objects = objects, !.object_kdtree = indexed] :
         objects \in SUBSET Keys, indexed \in SUBSET Keys }

\* Maps with every number of light, sound and effect sources.
SourceMaps ==
    { [BaseMap EXCEPT !.light_sources = [i \in 1..lights |-> LightSourceAt(i)],
                      !.sound_sources = [i \in 1..sounds |-> SoundSourceAt(i)],
                      !.effect_sources = [i \in 1..effects |-> EffectSourceAt(i)]] :
         lights \in 0..MaxSources, sounds \in 0..MaxSources, effects \in 0..MaxSources }

\* Maps with every combination of set and missing light settings.
LightSettingsMaps ==
    { [BaseMap EXCEPT !.light_settings = LightSettings(ambient_color, diffuse_color, light_intensity)] :
         ambient_color \in {None, Some(ColorRGB(One, Num(FALSE, 5000, -4), Zero))},
         diffuse_color \in {None, Some(ColorRGB(One, One, One))},
         light_intensity \in {None, Some(Num(FALSE, 5000, -4))} }

\* Maps without water, and with water with and without settings and level.
WaterMaps ==
    { [BaseMap EXCEPT !.water_settings = water_settings,
                      !.water_vertex_buffer = water_vertex_buffer] :
         water_settings \in {None, Some(WaterSettings(None)), Some(WaterSettings(Some(FromU8(3))))},
         water_vertex_buffer \in {None, Some("water_vertex_buffer")} }

\* The maps Map::new is given.
Maps == TileMaps \cup ObjectMaps \cup SourceMaps \cup LightSettingsMaps \cup WaterMaps

\* A Map method call with its arguments, whether it panicked, and its result.
MapCall(op, args, panicked, ret) ==
    [op |-> op, args |-> args, panicked |-> panicked, ret |-> ret]

\* No Map method has been called yet.
NoCall == MapCall("none", <<>>, FALSE, None)

\* SimpleSlab::iter: the occupied slots in slot order.
SlabIter(slab) == Ascending(slab)

\* KDTree::query(frustum, result): appends to result the keys of the tree
\* whose bounding box intersects the frustum. A frustum is given by the set
\* of keys whose boxes it intersects.
KDTreeQuery(tree, frustum, result) == result \o Ascending(tree \cap frustum)

x_in_bounds(x) == x <= map.width

y_in_bounds(y) == y <= map.height

XInBounds_Strict(x) ==
    /\ map_call' = MapCall("x_in_bounds", <<x>>, FALSE, x < map.width)
    /\ draws' = <<>>
    /\ UNCHANGED <<map, frustum_query_result, targetVars, lightVars, readVars>>

XInBounds(x) ==
    /\ map_call' = MapCall("x_in_bounds", <<x>>, FALSE, x_in_bounds(x))
    /\ draws' = <<>>
    /\ UNCHANGED <<map, frustum_query_result, targetVars, lightVars, readVars>>

YInBounds(y) ==
    /\ map_call' = MapCall("y_in_bounds", <<y>>, FALSE, y_in_bounds(y))
    /\ draws' = <<>>
    /\ UNCHANGED <<map, frustum_query_result, targetVars, lightVars, readVars>>

\* get_tile: &self.tiles[position.x + position.y * self.width]; indexing a Vec
\* out of range panics.
GetTile(position) ==
    LET index == position.x + position.y * map.width IN
    IF index < Len(map.tiles)
    THEN [panicked |-> FALSE, tile |-> map.tiles[index + 1]]
    ELSE [panicked |-> TRUE]

\* Variant: a read past the end of the tile array appends a flat tile to it
\* and returns that tile.
GetTileAt_Grow(position) ==
    LET got == GetTile(position)
        flat == TileAt(0, {}) IN
    /\ map_call' = MapCall("get_tile", <<position>>, FALSE,
                           IF got.panicked THEN flat ELSE got.tile)
    /\ draws' = <<>>
    /\ map' = IF got.panicked THEN [map EXCEPT !.tiles = Append(map.tiles, flat)] ELSE map
    /\ UNCHANGED <<frustum_query_result, targetVars, lightVars, readVars>>

GetTileAt(position) ==
    LET got == GetTile(position) IN
    /\ map_call' = MapCall("get_tile", <<position>>, got.panicked,
                           IF got.panicked THEN None ELSE got.tile)
    /\ draws' = <<>>
    /\ UNCHANGED <<map, frustum_query_result, targetVars, lightVars, readVars>>

\* `usize as f32`, and the f32 a whole-numbered tile height stands for.
AsF32(n) == Normal(FALSE, n, 0)

average_tile_height(tile) ==
    Div(Add(Add(Add(AsF32(tile.upper_left_height), AsF32(tile.upper_right_height)),
                AsF32(tile.lower_left_height)),
            AsF32(tile.lower_right_height)),
        Num(FALSE, 4000, -3))

GetWorldPosition(position) ==
    LET got == GetTile(position)
        height == average_tile_height(got.tile)
        world_position ==
            Vector3(Add(Mul(AsF32(position.x), Num(FALSE, 5000, -3)), Num(FALSE, 2500, -3)),
                    height,
                    Add(Mul(AsF32(position.y), Num(FALSE, 5000, -3)), Num(FALSE, 2500, -3))) IN
    /\ map_call' = MapCall("get_world_position", <<position>>, got.panicked,
                           IF got.panicked THEN None ELSE world_position)
    /\ draws' = <<>>
    /\ UNCHANGED <<map, frustum_query_result, targetVars, lightVars, readVars>>

\* Point3::from_vec: the point with the vector's coordinates.
Point3FromVec(vector) == [x |-> vector[1], y |-> vector[2], z |-> vector[3]]

AMBIENT_SOUND_MULTIPLIER == Num(FALSE, 1500, -3)

\* AudioEngine::load: the key of the sound effect loaded from the file.
AudioEngineLoad(sound_file) == [sound_effect_key |-> sound_file]

\* The AudioEngine calls made for one sound source.
AmbientSoundCalls(sound) ==
    LET sound_effect_key == AudioEngineLoad(sound.sound_file) IN
    <<[call |-> "AudioEngine::load", path |-> sound.sound_file],
      [call |-> "AudioEngine::add_ambient_sound",
       sound_effect_key |-> sound_effect_key,
       position |-> Point3FromVec(sound.position),
       range |-> Mul(sound.range, AMBIENT_SOUND_MULTIPLIER),
       volume |-> sound.volume,
       cycle |-> sound.cycle]>>

\* The calls made for the sound sources from the i-th on, in list order.
RECURSIVE AmbientSoundCallsFrom(_, _)
AmbientSoundCallsFrom(sound_sources, i) ==
    IF i > Len(sound_sources) THEN <<>>
    ELSE AmbientSoundCalls(sound_sources[i]) \o AmbientSoundCallsFrom(sound_sources, i + 1)

\* Variant: the ambient sound is cleared and prepared only when the map has
\* sound sources.
SetAmbientSoundSources_SkipEmpty ==
    /\ map_call' = MapCall("set_ambient_sound_sources", <<>>, FALSE, None)
    /\ draws' = IF map.sound_sources = <<>> THEN <<>>
                ELSE <<[call |-> "AudioEngine::clear_ambient_sound"]>>
                         \o AmbientSoundCallsFrom(map.sound_sources, 1)
                         \o <<[call |-> "AudioEngine::prepare_ambient_sound_world"]>>
    /\ UNCHANGED <<map, frustum_query_result, targetVars, lightVars, readVars>>

SetAmbientSoundSources ==
    /\ map_call' = MapCall("set_ambient_sound_sources", <<>>, FALSE, None)
    /\ draws' = <<[call |-> "AudioEngine::clear_ambient_sound"]>>
                    \o AmbientSoundCallsFrom(map.sound_sources, 1)
                    \o <<[call |-> "AudioEngine::prepare_ambient_sound_world"]>>
    /\ UNCHANGED <<map, frustum_query_result, targetVars, lightVars, readVars>>

RenderGround ==
    /\ map_call' = MapCall("render_ground", <<>>, FALSE, None)
    /\ draws' = <<[call |-> "render_geometry",
                   vertex_buffer |-> map.ground_vertex_buffer,
                   textures |-> map.ground_textures,
                   world_matrix |-> "identity"]>>
    /\ UNCHANGED <<map, frustum_query_result, targetVars, lightVars, readVars>>

\* Variant: queries the index without clearing the caller's vector first.
RenderObjects_NoClear(frustum, frustum_culling) ==
    LET result == KDTreeQuery(map.object_kdtree, frustum, frustum_query_result) IN
    /\ frustum_query_result' = result
    /\ map_call' = MapCall("render_objects", <<frustum, frustum_culling, frustum_query_result>>,
                           FALSE, None)
    /\ draws' =
          IF ~frustum_culling
          THEN [i \in 1..Cardinality(map.objects) |->
                   [call |-> "Object::render_geometry", object |-> SlabIter(map.objects)[i]]]
          ELSE LET found == SelectSeq(result, LAMBDA object_key : object_key \in map.objects)
               IN [i \in 1..Len(found) |->
                      [call |-> "Object::render_geometry", object |-> found[i]]]
    /\ UNCHANGED <<map, targetVars, lightVars, readVars>>

\* Variant: never culls; every object of the slot-map is drawn in both modes.
RenderObjects_NoCulling(frustum, frustum_culling) ==
    LET cleared == <<>>
        result == KDTreeQuery(map.object_kdtree, frustum, cleared) IN
    /\ frustum_query_result' = result
    /\ map_call' = MapCall("render_objects", <<frustum, frustum_culling, frustum_query_result>>,
                           FALSE, None)
    /\ draws' = [i \in 1..Cardinality(map.objects) |->
                    [call |-> "Object::render_geometry", object |-> SlabIter(map.objects)[i]]]
    /\ UNCHANGED <<map, targetVars, lightVars, readVars>>

RenderObjects(frustum, frustum_culling) ==
    LET cleared == <<>>
        result == KDTreeQuery(map.object_kdtree, frustum, cleared) IN
    /\ frustum_query_result' = result
    /\ map_call' = MapCall("render_objects", <<frustum, frustum_culling, frustum_query_result>>,
                           FALSE, None)
    /\ draws' =
          IF ~frustum_culling
          THEN [i \in 1..Cardinality(map.objects) |->
                   [call |-> "Object::render_geometry", object |-> SlabIter(map.objects)[i]]]
          ELSE LET found == SelectSeq(result, LAMBDA object_key : object_key \in map.objects)
               IN [i \in 1..Len(found) |->
                      [call |-> "Object::render_geometry", object |-> found[i]]]
    /\ UNCHANGED <<map, targetVars, lightVars, readVars>>

\* Iterator::skip(n): the elements after the first n, none when there are
\* no more than n.
Skip(sequence, n) == SubSeq(sequence, n + 1, Len(sequence))

\* `bool as usize`
BoolAsUsize(b) == IF b THEN 1 ELSE 0

\* Variant: skips the first entity when include_self is set.
RenderEntities_SkipInverted(entities, include_self) ==
    LET rendered == Skip(entities, BoolAsUsize(include_self)) IN
    /\ map_call' = MapCall("render_entities", <<entities, include_self>>, FALSE, None)
    /\ draws' = [i \in 1..Len(rendered) |-> [call |-> "Entity::render", entity |-> rendered[i]]]
    /\ UNCHANGED <<map, frustum_query_result, targetVars, lightVars, readVars>>

RenderEntities(entities, include_self) ==
    LET rendered == Skip(entities, BoolAsUsize(~include_self)) IN
    /\ map_call' = MapCall("render_entities", <<entities, include_self>>, FALSE, None)
    /\ draws' = [i \in 1..Len(rendered) |-> [call |-> "Entity::render", entity |-> rendered[i]]]
    /\ UNCHANGED <<map, frustum_query_result, targetVars, lightVars, readVars>>

\* The renderer's render_walk_indicator call.
WalkIndicator(color, upper_left, upper_right, lower_left, lower_right) ==
    [call |-> "render_walk_indicator", color |-> color,
     upper_left |-> upper_left, upper_right |-> upper_right,
     lower_left |-> lower_left, lower_right |-> lower_right]

\* Variant: the indicator lies on the ground (no vertical offset).
RenderWalkIndicator_NoOffset(color, position) ==
    LET got == GetTile(position)
        tile == got.tile
        base_x == position.x * TILE_SIZE
        base_y == position.y * TILE_SIZE
        upper_left == Vector3(base_x, tile.upper_left_height, base_y)
        upper_right == Vector3(base_x + TILE_SIZE, tile.upper_right_height, base_y)
        lower_left == Vector3(base_x, tile.lower_left_height, base_y + TILE_SIZE)
        lower_right == Vector3(base_x + TILE_SIZE, tile.lower_right_height, base_y + TILE_SIZE) IN
    /\ map_call' = MapCall("render_walk_indicator", <<color, position>>, got.panicked, None)
    /\ draws' = IF got.panicked THEN <<>>
                ELSE IF "WALKABLE" \in tile.flags
                     THEN <<WalkIndicator(color, upper_left, upper_right, lower_left, lower_right)>>
                     ELSE <<>>
    /\ UNCHANGED <<map, frustum_query_result, targetVars, lightVars, readVars>>

RenderWalkIndicator(color, position) ==
    LET got == GetTile(position)
        tile == got.tile
        base_x == position.x * TILE_SIZE
        base_y == position.y * TILE_SIZE
        upper_left == Vector3(base_x, tile.upper_left_height + OFFSET, base_y)
        upper_right == Vector3(base_x + TILE_SIZE, tile.upper_right_height + OFFSET, base_y)
        lower_left == Vector3(base_x, tile.lower_left_height + OFFSET, base_y + TILE_SIZE)
        lower_right == Vector3(base_x + TILE_SIZE, tile.lower_right_height + OFFSET, base_y + TILE_SIZE) IN
    /\ map_call' = MapCall("render_walk_indicator", <<color, position>>, got.panicked, None)
    /\ draws' = IF got.panicked THEN <<>>
                ELSE IF "WALKABLE" \in tile.flags
                     THEN <<WalkIndicator(color, upper_left, upper_right, lower_left, lower_right)>>
                     ELSE <<>>
    /\ UNCHANGED <<map, frustum_query_result, targetVars, lightVars, readVars>>

\* SimpleSlab::get: the element stored under the key, if the slot is occupied.
SlabGet(slab, key) == IF key \in slab THEN Some(ObjectAt(key)) ELSE None

\* Indexing a Vec or slice (from 0): the element, a panic past the end.
Index(vec, index) ==
    IF index < Len(vec)
    THEN [panicked |-> FALSE, value |-> vec[index + 1]]
    ELSE [panicked |-> TRUE]

AmbientLight(day_timer) ==
    LET ambient_color == Unwrap(map.light_settings.ambient_color) IN
    /\ map_call' = MapCall("ambient_light", <<day_timer>>, ambient_color.panicked, None)
    /\ draws' = IF ambient_color.panicked THEN <<>>
                ELSE <<[call |-> "ambient_light",
                        color |-> get_ambient_light_color(IntoColor(ambient_color.value), day_timer)]>>
    /\ UNCHANGED <<map, frustum_query_result, targetVars, lightVars, readVars>>

\* Variant: a missing light intensity is taken as 0.0.
DirectionalLight_DefaultIntensity(day_timer) ==
    LET light_direction == get_light_direction(day_timer)
        diffuse_color == Unwrap(map.light_settings.diffuse_color)
        light_intensity == UnwrapOrDefault(map.light_settings.light_intensity, Zero)
        panicked == diffuse_color.panicked
        color_intensity ==
            get_directional_light_color_intensity(IntoColor(diffuse_color.value),
                                                  light_intensity, day_timer) IN
    /\ map_call' = MapCall("directional_light", <<day_timer>>, panicked, None)
    /\ draws' = IF panicked THEN <<>>
                ELSE <<[call |-> "directional_light", light_direction |-> light_direction,
                        directional_color |-> color_intensity[1],
                        intensity |-> color_intensity[2]]>>
    /\ UNCHANGED <<map, frustum_query_result, targetVars, lightVars, readVars>>

DirectionalLight(day_timer) ==
    LET light_direction == get_light_direction(day_timer)
        diffuse_color == Unwrap(map.light_settings.diffuse_color)
        light_intensity == Unwrap(map.light_settings.light_intensity)
        panicked == diffuse_color.panicked \/ light_intensity.panicked
        color_intensity ==
            get_directional_light_color_intensity(IntoColor(diffuse_color.value),
                                                  light_intensity.value, day_timer) IN
    /\ map_call' = MapCall("directional_light", <<day_timer>>, panicked, None)
    /\ draws' = IF panicked THEN <<>>
                ELSE <<[call |-> "directional_light", light_direction |-> light_direction,
                        directional_color |-> color_intensity[1],
                        intensity |-> color_intensity[2]]>>
    /\ UNCHANGED <<map, frustum_query_result, targetVars, lightVars, readVars>>

\* Variant: only the first light source is rendered.
PointLights_FirstOnly ==
    /\ map_call' = MapCall("point_lights", <<>>, FALSE, None)
    /\ draws' = [i \in 1..(IF Len(map.light_sources) = 0 THEN 0 ELSE 1) |->
                    [call |-> "LightSource::render_light", light_source |-> map.light_sources[i]]]
    /\ UNCHANGED <<map, frustum_query_result, targetVars, lightVars, readVars>>

PointLights ==
    /\ map_call' = MapCall("point_lights", <<>>, FALSE, None)
    /\ draws' = [i \in 1..Len(map.light_sources) |->
                    [call |-> "LightSource::render_light", light_source |-> map.light_sources[i]]]
    /\ UNCHANGED <<map, frustum_query_result, targetVars, lightVars, readVars>>

\* water_settings.as_ref().and_then(|settings| settings.water_level)
WaterLevel(water_settings) ==
    IF water_settings = None THEN None ELSE water_settings[1].water_level

RenderWater(day_timer) ==
    /\ map_call' = MapCall("render_water", <<day_timer>>, FALSE, None)
    /\ draws' = IF map.water_vertex_buffer # None
                THEN <<[call |-> "render_water",
                        water_vertex_buffer |-> map.water_vertex_buffer[1],
                        day_timer |-> day_timer]>>
                ELSE <<>>
    /\ UNCHANGED <<map, frustum_query_result, targetVars, lightVars, readVars>>

\* Variant: the water level is unwrapped; a map without water settings or
\* without a level makes the method panic before the renderer is called.
WaterLight_Unwrap ==
    LET water_level == Unwrap(WaterLevel(map.water_settings)) IN
    /\ map_call' = MapCall("water_light", <<>>, water_level.panicked, None)
    /\ draws' = IF water_level.panicked THEN <<>>
                ELSE <<[call |-> "water_light", water_level |-> water_level.value]>>
    /\ UNCHANGED <<map, frustum_query_result, targetVars, lightVars, readVars>>

WaterLight ==
    LET water_level == UnwrapOrDefault(WaterLevel(map.water_settings), Zero) IN
    /\ map_call' = MapCall("water_light", <<>>, FALSE, None)
    /\ draws' = <<[call |-> "water_light", water_level |-> water_level]>>
    /\ UNCHANGED <<map, frustum_query_result, targetVars, lightVars, readVars>>

\* The last element of a non-empty Vec or slice, a panic on an empty one.
IndexClamped(vec, index) ==
    IF Len(vec) = 0
    THEN [panicked |-> TRUE]
    ELSE [panicked |-> FALSE,
          value |-> vec[(IF index < Len(vec) THEN index ELSE Len(vec) - 1) + 1]]

\* Variant: an index past the end of a source list resolves to the last source.
ResolveMarker_Clamped(entities, marker_identifier) ==
    LET variant == marker_identifier[1]
        resolved ==
            CASE variant = "Object" -> Unwrap(SlabGet(map.objects, marker_identifier[2]))
              [] variant = "LightSource" -> IndexClamped(map.light_sources, marker_identifier[2])
              [] variant = "SoundSource" -> IndexClamped(map.sound_sources, marker_identifier[2])
              [] variant = "EffectSource" -> IndexClamped(map.effect_sources, marker_identifier[2])
              [] variant = "Particle" -> [panicked |-> TRUE]
              [] variant = "Entity" -> Index(entities, marker_identifier[2]) IN
    /\ map_call' = MapCall("resolve_marker", <<entities, marker_identifier>>, resolved.panicked,
                           IF resolved.panicked THEN None ELSE resolved.value)
    /\ draws' = <<>>
    /\ UNCHANGED <<map, frustum_query_result, targetVars, lightVars, readVars>>

ResolveMarker(entities, marker_identifier) ==
    LET variant == marker_identifier[1]
        resolved ==
            CASE variant = "Object" -> Unwrap(SlabGet(map.objects, marker_identifier[2]))
              [] variant = "LightSource" -> Index(map.light_sources, marker_identifier[2])
              [] variant = "SoundSource" -> Index(map.sound_sources, marker_identifier[2])
              [] variant = "EffectSource" -> Index(map.effect_sources, marker_identifier[2])
              [] variant = "Particle" -> [panicked |-> TRUE]
              [] variant = "Entity" -> Index(entities, marker_identifier[2]) IN
    /\ map_call' = MapCall("resolve_marker", <<entities, marker_identifier>>, resolved.panicked,
                           IF resolved.panicked THEN None ELSE resolved.value)
    /\ draws' = <<>>
    /\ UNCHANGED <<map, frustum_query_result, targetVars, lightVars, readVars>>

\* The map variables while no map is in use.
MapIdle ==
    /\ map = BaseMap
    /\ frustum_query_result = <<>>
    /\ map_call = NoCall
    /\ draws = <<>>

\* The entity slices handed to render_entities: entities 1..n in that order,
\* the first being the local player.
EntityLists == { [i \in 1..n |-> i] : n \in 0..MaxEntities }

IndicatorColors == {"walk_indicator"}

\* The day_timer values handed to the Map's lighting and water methods: 0.5
\* (sun up) and 4.0 (moon up).
MapDayTimers == {Num(FALSE, 5000, -4), Num(FALSE, 4000, -3)}

\* MarkerIdentifier: the variant with the key or the indices it carries.
MarkerIdentifiers ==
    {<<"Object", key>> : key \in 0..(MaxKeys + 1)}
        \cup {<<variant, index>> : variant \in {"LightSource", "SoundSource", "EffectSource"},
                                   index \in 0..MaxSources}
        \cup {<<"Particle", index, particle>> : index \in 0..0, particle \in 0..1}
        \cup {<<"Entity", index>> : index \in 0..MaxEntities}

\* The entity slices and markers handed to resolve_marker: every entity marker
\* with every slice, every other marker with the longest slice.
MarkerInputs ==
    { input \in EntityLists \X MarkerIdentifiers :
         input[2][1] # "Entity" => Len(input[1]) = MaxEntities }

TargetsNew ==
    /\ deferred = DeferredNew
    /\ picker = PickerNew
    /\ single_color = SingleNew("interface", ColorClearValue)
    /\ single_depth = SingleNew("shadow", DepthClearValue)
    /\ calls = <<>>

TargetInit ==
    /\ TargetsNew
    /\ MapIdle
    /\ LightIdle
    /\ ReadIdle

TargetNext ==
    \/ \E sub_renderer \in Tags : DeferredBoundSubRenderer(sub_renderer)
    \/ DeferredStartGeometryPass
    \/ DeferredStartScreenPass
    \/ PickerStartRenderPass
    \/ PickerStartComputePass
    \/ \E sub_renderer \in Tags : PickerBoundSubRenderer(sub_renderer)
    \/ \E sub_renderer \in Tags : SingleColorBindSubRenderer(sub_renderer)
    \/ \E sub_renderer \in Tags : SingleDepthBindSubRenderer(sub_renderer)
    \/ \E clear_interface \in BOOLEAN : SingleColorStart(clear_interface)
    \/ SingleDepthStart

TargetSpec == TargetInit /\ [][TargetNext]_vars

(***************************************************************************)
(* Properties of the render targets (checked under TargetSpec).            *)
(***************************************************************************)
\* The calls made on one target, in order.
CallsOn(target) == SelectSeq(calls, LAMBDA call : call.target = target)

IsBind(call) == call.op \in {"bound_sub_renderer", "bind_sub_renderer"}

\* The bound_sub_renderer field of a target, by name.
BoundOf(target) ==
    CASE target = "deferred" -> deferred.bound_sub_renderer
      [] target = "picker" -> picker.bound_sub_renderer
      [] target = "single_color" -> single_color.bound_sub_renderer
      [] target = "single_depth" -> single_depth.bound_sub_renderer

\* On `target`, the first call after every call of `op` is, when it is a bind,
\* one that returned true; and while `op` is the latest call nothing is bound.
FirstBindAfter(target, op) ==
    LET on == CallsOn(target) IN
    /\ \A i \in 1..Len(on) :
          (on[i].op = op /\ i < Len(on) /\ IsBind(on[i + 1])) => on[i + 1].ret = TRUE
    /\ (Len(on) > 0 /\ on[Len(on)].op = op) => BoundOf(target) = None

\* `target` was bound to `tag`, then `op` was called with `arg`, then the same
\* tag was bound again and reported a change.
RebindAfter(target, op, arg) ==
    LET on == CallsOn(target) IN
    \E i \in 1..Len(on) : \E tag \in Tags :
        /\ i + 2 <= Len(on)
        /\ IsBind(on[i]) /\ on[i].arg = tag
        /\ on[i + 1].op = op /\ on[i + 1].arg = arg /\ on[i + 1].before = Some(tag)
        /\ IsBind(on[i + 2]) /\ on[i + 2].arg = tag /\ on[i + 2].ret = TRUE

\* C1: on the deferred, picker and single targets a bind with tag T leaves T
\* recorded and returns true exactly when none or another tag was recorded
\* before; so A, A, B on a fresh target returns true, false, true.
C1_BindContract ==
    /\ \A i \in 1..Len(calls) :
          IsBind(calls[i]) =>
              calls[i].ret = (calls[i].before = None \/ calls[i].before # Some(calls[i].arg))
    /\ \A target \in {"deferred", "picker", "single_color", "single_depth"} :
          LET on == CallsOn(target) IN
          /\ (Len(on) > 0 /\ IsBind(on[Len(on)])) => BoundOf(target) = Some(on[Len(on)].arg)
          /\ (/\ Len(on) >= 3
              /\ IsBind(on[1]) /\ IsBind(on[2]) /\ IsBind(on[3])
              /\ on[1].arg = on[2].arg /\ on[3].arg # on[2].arg)
             => (on[1].ret = TRUE /\ on[2].ret = FALSE /\ on[3].ret = TRUE)

\* A fresh deferred target was bound A, A, B and answered true, false, true.
C1_Witness ==
    LET on == CallsOn("deferred") IN
    /\ Len(on) = 3
    /\ IsBind(on[1]) /\ IsBind(on[2]) /\ IsBind(on[3])
    /\ on[1].arg = on[2].arg /\ on[3].arg # on[2].arg
    /\ on[1].ret = TRUE /\ on[2].ret = FALSE /\ on[3].ret = TRUE
    /\ deferred.bound_sub_renderer = Some(on[3].arg)

\* C2: on a DeferredRenderTarget both start_geometry_pass and
\* start_screen_pass reset the recorded sub-renderer to none, so the first
\* bind after either returns true for every tag.
C2_DeferredPassStartResets ==
    /\ FirstBindAfter("deferred", "start_geometry_pass")
    /\ FirstBindAfter("deferred", "start_screen_pass")

\* C3: on a PickerRenderTarget both start_render_pass and start_compute_pass
\* reset the recorded sub-renderer to none, so the first bind after either
\* returns true for every tag.
C3_PickerPassStartResets ==
    /\ FirstBindAfter("picker", "start_render_pass")
    /\ FirstBindAfter("picker", "start_compute_pass")

\* The picker was bound, a compute pass was started, and the same tag bound
\* again reported a change.
C3_Witness == RebindAfter("picker", "start_compute_pass", None)

\* C4: on both SingleRenderTarget variants every start resets the recorded
\* sub-renderer to none whatever clear_interface is, so the first bind after
\* start returns true for every tag.
C4_SingleStartResets ==
    /\ FirstBindAfter("single_color", "start")
    /\ FirstBindAfter("single_depth", "start")

\* The colour target was bound, started with clear_interface = false, and the
\* same tag bound again reported a change.
C4_Witness == RebindAfter("single_color", "start", FALSE)

\* C14: the colour SingleRenderTarget's start declares Clear(stored clear
\* value) on its one colour attachment exactly when clear_interface is true and
\* Load otherwise; the depth variant's start always declares Clear(stored
\* depth clear value) on its depth attachment; both declare Store.
C14_SingleStartLoadOps ==
    \A i \in 1..Len(calls) :
        LET call == calls[i] IN
        /\ (call.target = "single_color" /\ call.op = "start") =>
              /\ Len(call.ret.color_attachments) = 1
              /\ call.arg = TRUE =>
                    call.ret.color_attachments[1].load = Clear(single_color.clear_value)
              /\ call.arg = FALSE => call.ret.color_attachments[1].load = Load
              /\ call.ret.color_attachments[1].store = "Store"
              /\ call.ret.depth_stencil_attachment = None
        /\ (call.target = "single_depth" /\ call.op = "start") =>
              /\ call.ret.color_attachments = <<>>
              /\ Len(call.ret.depth_stencil_attachment) = 1
              /\ call.ret.depth_stencil_attachment[1].load = Clear(single_depth.clear_value)
              /\ call.ret.depth_stencil_attachment[1].store = "Store"

\* The colour target was started with clear_interface = true, then with
\* false, and the depth target was started: Clear, Load, Clear.
C14_Witness ==
    /\ Len(calls) >= 3
    /\ calls[1].target = "single_color" /\ calls[1].op = "start" /\ calls[1].arg = TRUE
    /\ calls[1].ret.color_attachments[1].load = Clear(ColorClearValue)
    /\ calls[2].target = "single_color" /\ calls[2].op = "start" /\ calls[2].arg = FALSE
    /\ calls[2].ret.color_attachments[1].load = Load
    /\ calls[3].target = "single_depth" /\ calls[3].op = "start"
    /\ calls[3].ret.depth_stencil_attachment[1].load = Clear(DepthClearValue)

\* C15: the capacity the picker value buffer is created with is
\* picker_value_size(), the byte cost of one texel of the picker's output
\* colour format R32Uint, which is 4 bytes.
C15_PickerValueBufferSize ==
    /\ picker.buffer.capacity = picker_value_size
    /\ output_color_format = "R32Uint"
    /\ TargetPixelByteCost(output_color_format) = Some(picker.buffer.capacity)
    /\ picker.buffer.capacity = 4

\* The picker target, created with a buffer of 4 bytes, has started a pass.
C15_Witness ==
    /\ \E i \in 1..Len(calls) : calls[i].target = "picker" /\ calls[i].op = "start_compute_pass"
    /\ picker.buffer.label = "picker value"
    /\ picker.buffer.capacity = 4

MapInit ==
    /\ TargetsNew
    /\ map \in Maps
    /\ frustum_query_result = <<>>
    /\ map_call = NoCall
    /\ draws = <<>>
    /\ LightIdle
    /\ ReadIdle

MapNext ==
    \/ \E x \in 0..(MaxWidth + 1) : XInBounds(x)
    \/ \E y \in 0..(MaxHeight + 1) : YInBounds(y)
    \/ \E frustum \in SUBSET Keys : \E frustum_culling \in BOOLEAN :
          RenderObjects(frustum, frustum_culling)
    \/ \E entities \in EntityLists : \E include_self \in BOOLEAN :
          RenderEntities(entities, include_self)
    \/ \E color \in IndicatorColors : \E x \in 0..map.width : \E y \in 0..map.height :
          RenderWalkIndicator(color, Vector2(x, y))
    \/ \E input \in MarkerInputs : ResolveMarker(input[1], input[2])
    \/ \E day_timer \in MapDayTimers : AmbientLight(day_timer)
    \/ \E day_timer \in MapDayTimers : DirectionalLight(day_timer)
    \/ PointLights
    \/ WaterLight
    \/ \E day_timer \in MapDayTimers : RenderWater(day_timer)
    \/ RenderGround
    \/ SetAmbientSoundSources
    \/ \E x \in 0..MaxWidth : \E y \in 0..MaxHeight : GetTileAt(Vector2(x, y))
    \/ \E x \in 0..MaxWidth : \E y \in 0..MaxHeight : GetWorldPosition(Vector2(x, y))

MapSpec == MapInit /\ [][MapNext]_vars

(***************************************************************************)
(* Properties of the Map (checked under MapSpec).                          *)
(***************************************************************************)
\* The keys of the objects a sequence of draws was issued for.
DrawnObjects == {draws[i].object : i \in 1..Len(draws)}

\* C5: with N objects of which the spatial index reports M as intersecting the
\* frustum, render_objects issues exactly M object geometry draws, one per
\* intersecting object and none for another, when culling is on; with the
\* debug bypass it issues exactly N, one per object of the slot-map.
C5_RenderObjectsCulls ==
    map_call.op = "render_objects" =>
        LET frustum == map_call.args[1]
            frustum_culling == map_call.args[2]
            intersecting == {key \in map.objects : key \in map.object_kdtree /\ key \in frustum}
            expected == IF frustum_culling THEN intersecting ELSE map.objects IN
        /\ ~map_call.panicked
        /\ \A i \in 1..Len(draws) : draws[i].call = "Object::render_geometry"
        /\ Len(draws) = Cardinality(expected)
        /\ DrawnObjects = expected

\* Two objects, one of them inside the frustum, drawn alone with culling on.
C5_Witness ==
    /\ map_call.op = "render_objects"
    /\ map_call.args[2] = TRUE
    /\ Cardinality(map.objects) = 2
    /\ map.objects \subseteq map.object_kdtree
    /\ Cardinality(map.objects \cap map_call.args[1]) = 1
    /\ Len(draws) = 1

\* C6: render_walk_indicator issues no renderer call and no error when the
\* tile's WALKABLE flag is unset, and otherwise exactly one
\* render_walk_indicator call with the corners (5x, ul+1, 5y), (5x+5, ur+1, 5y),
\* (5x, ll+1, 5y+5), (5x+5, lr+1, 5y+5).
C6_WalkIndicator ==
    (map_call.op = "render_walk_indicator"
        /\ map_call.args[2].x + map_call.args[2].y * map.width < Len(map.tiles)) =>
        LET x == map_call.args[2].x
            y == map_call.args[2].y
            tile == map.tiles[x + y * map.width + 1] IN
        /\ ~map_call.panicked
        /\ "WALKABLE" \notin tile.flags => draws = <<>>
        /\ "WALKABLE" \in tile.flags =>
              /\ Len(draws) = 1
              /\ draws[1].call = "render_walk_indicator"
              /\ draws[1].upper_left = <<5 * x, tile.upper_left_height + 1, 5 * y>>
              /\ draws[1].upper_right = <<5 * x + 5, tile.upper_right_height + 1, 5 * y>>
              /\ draws[1].lower_left = <<5 * x, tile.lower_left_height + 1, 5 * y + 5>>
              /\ draws[1].lower_right = <<5 * x + 5, tile.lower_right_height + 1, 5 * y + 5>>

\* The indicator was drawn on the walkable tile (1, 1) of a 2 x 2 map.
C6_Witness ==
    /\ map_call.op = "render_walk_indicator"
    /\ map.width = 2 /\ map.height = 2
    /\ map_call.args[2] = Vector2(1, 1)
    /\ Len(draws) = 1
    /\ draws[1].upper_left = <<5, 32, 5>>
    /\ draws[1].lower_right = <<10, 35, 10>>

\* C7: render_entities issues one draw per entity in the order given: all n
\* with include_self, all but the first without, and none, without failing,
\* for an empty sequence in either mode.
C7_RenderEntities ==
    map_call.op = "render_entities" =>
        LET entities == map_call.args[1]
            include_self == map_call.args[2]
            n == Len(entities)
            first == IF include_self THEN 1 ELSE 2 IN
        /\ ~map_call.panicked
        /\ \A i \in 1..Len(draws) : draws[i].call = "Entity::render"
        /\ Len(draws) = (IF include_self \/ n = 0 THEN n ELSE n - 1)
        /\ \A i \in 1..Len(draws) : draws[i].entity = entities[first + i - 1]

\* Three entities were given without include_self; the last two were drawn.
C7_Witness ==
    /\ map_call.op = "render_entities"
    /\ map_call.args[1] = <<1, 2, 3>>
    /\ map_call.args[2] = FALSE
    /\ Len(draws) = 2
    /\ draws[1].entity = 2
    /\ draws[2].entity = 3

\* C8: x_in_bounds(x) is true exactly when x <= width and y_in_bounds(y)
\* exactly when y <= height, so x = width and y = height are accepted.
C8_InBounds ==
    /\ map_call.op = "x_in_bounds" =>
          /\ map_call.ret = (map_call.args[1] \in 0..map.width)
          /\ map_call.args[1] = map.width => map_call.ret = TRUE
    /\ map_call.op = "y_in_bounds" =>
          /\ map_call.ret = (map_call.args[1] \in 0..map.height)
          /\ map_call.args[1] = map.height => map_call.ret = TRUE

\* x_in_bounds accepted x = width.
C8_Witness ==
    /\ map_call.op = "x_in_bounds"
    /\ map_call.args[1] = map.width
    /\ map_call.ret = TRUE

\* The latest call returned the element if it is present, and panicked if not.
ResolvedFrom(present, element) ==
    IF present
    THEN ~map_call.panicked /\ map_call.ret = element
    ELSE map_call.panicked /\ map_call.ret = None

\* C11: resolve_marker panics on a Particle marker; on an Object, LightSource,
\* SoundSource, EffectSource or Entity marker it returns the element stored
\* under the carried key or index in the matching collection, and panics,
\* returning nothing, when there is no such key or index.
C11_ResolveMarker ==
    map_call.op = "resolve_marker" =>
        LET entities == map_call.args[1]
            variant == map_call.args[2][1]
            at == map_call.args[2][2] IN
        CASE variant = "Particle" -> map_call.panicked /\ map_call.ret = None
          [] variant = "Object" ->
                ResolvedFrom(at \in map.objects, ObjectAt(at))
          [] variant = "LightSource" ->
                ResolvedFrom(at < Len(map.light_sources), LightSourceAt(at + 1))
          [] variant = "SoundSource" ->
                ResolvedFrom(at < Len(map.sound_sources), SoundSourceAt(at + 1))
          [] variant = "EffectSource" ->
                ResolvedFrom(at < Len(map.effect_sources), EffectSourceAt(at + 1))
          [] variant = "Entity" ->
                ResolvedFrom(at < Len(entities), at + 1)

\* The second of two sound sources has been resolved.
C11_Witness ==
    /\ map_call.op = "resolve_marker"
    /\ map_call.args[2] = <<"SoundSource", 1>>
    /\ Len(map.sound_sources) = 2
    /\ ~map_call.panicked
    /\ map_call.ret = map.sound_sources[2]

\* C12: ambient_light panics without a renderer call when ambient_color is
\* unset, and directional_light when diffuse_color or light_intensity is unset;
\* with the fields set each issues exactly one renderer call, its own.
C12_LightSettingsRequired ==
    /\ map_call.op = "ambient_light" =>
          IF map.light_settings.ambient_color = None
          THEN map_call.panicked /\ draws = <<>>
          ELSE ~map_call.panicked /\ Len(draws) = 1 /\ draws[1].call = "ambient_light"
    /\ map_call.op = "directional_light" =>
          IF \/ map.light_settings.diffuse_color = None
             \/ map.light_settings.light_intensity = None
          THEN map_call.panicked /\ draws = <<>>
          ELSE ~map_call.panicked /\ Len(draws) = 1 /\ draws[1].call = "directional_light"

\* directional_light panicked on a map with a diffuse colour and no intensity.
C12_Witness ==
    /\ map_call.op = "directional_light"
    /\ map.light_settings.diffuse_color # None
    /\ map.light_settings.light_intensity = None
    /\ map_call.panicked
    /\ draws = <<>>

\* C16: no Map operation (render_ground, render_objects, render_entities,
\* render_walk_indicator, render_water, the lighting methods,
\* set_ambient_sound_sources, the position queries) changes the Map: width,
\* height, tiles, objects, the light, sound and effect lists and the spatial
\* index stay as constructed, and tiles.length == width * height keeps holding.
C16_MapUnchanged ==
    /\ [](Len(map.tiles) = map.width * map.height)
    /\ [][map' = map]_vars

\* After an earlier render_objects that found an object, a world position was
\* queried on a map that still has its object and its index.
C16_Witness ==
    /\ map_call.op = "get_world_position"
    /\ ~map_call.panicked
    /\ frustum_query_result # <<>>
    /\ map.objects # {}
    /\ map.object_kdtree # {}
    /\ Len(map.tiles) = map.width * map.height

\* C17: set_ambient_sound_sources calls clear_ambient_sound once, first; then,
\* for each sound source in list order, load(sound_file) followed by
\* add_ambient_sound(the key load returned, position, range * 1.5, volume,
\* cycle); then prepare_ambient_sound_world once, last, also for an empty list.
C17_AmbientSoundCalls ==
    map_call.op = "set_ambient_sound_sources" =>
        LET n == Len(map.sound_sources) IN
        /\ ~map_call.panicked
        /\ Len(draws) = 2 * n + 2
        /\ draws[1].call = "AudioEngine::clear_ambient_sound"
        /\ draws[2 * n + 2].call = "AudioEngine::prepare_ambient_sound_world"
        /\ \A i \in 1..n :
              LET sound == map.sound_sources[i]
                  load == draws[2 * i]
                  add == draws[2 * i + 1] IN
              /\ load.call = "AudioEngine::load"
              /\ load.path = sound.sound_file
              /\ add.call = "AudioEngine::add_ambient_sound"
              /\ add.sound_effect_key = AudioEngineLoad(sound.sound_file)
              /\ add.position = [x |-> sound.position[1], y |-> sound.position[2],
                                 z |-> sound.position[3]]
              /\ add.range = Mul(sound.range, Num(FALSE, 1500, -3))
              /\ add.volume = sound.volume
              /\ add.cycle = sound.cycle

\* Two sound sources of range 10 and 20 were registered with range 15 and 30
\* between the clearing and the preparing call.
C17_Witness ==
    /\ map_call.op = "set_ambient_sound_sources"
    /\ Len(map.sound_sources) = 2
    /\ Len(draws) = 6
    /\ draws[1].call = "AudioEngine::clear_ambient_sound"
    /\ draws[2].call = "AudioEngine::load" /\ draws[2].path = 1
    /\ draws[3].range = Num(FALSE, 1500, -2)
    /\ draws[4].call = "AudioEngine::load" /\ draws[4].path = 2
    /\ draws[5].range = Num(FALSE, 3000, -2)
    /\ draws[6].call = "AudioEngine::prepare_ambient_sound_world"

\* C18: point_lights issues exactly one render_light per light source of the
\* map, in list order, and none when the list is empty.
C18_PointLights ==
    map_call.op = "point_lights" =>
        /\ ~map_call.panicked
        /\ Len(draws) = Len(map.light_sources)
        /\ \A i \in 1..Len(draws) :
              /\ draws[i].call = "LightSource::render_light"
              /\ draws[i].light_source = map.light_sources[i]

\* Both light sources of a map were rendered, the first one first.
C18_Witness ==
    /\ map_call.op = "point_lights"
    /\ Len(map.light_sources) = 2
    /\ Len(draws) = 2
    /\ draws[1].light_source = LightSourceAt(1)
    /\ draws[2].light_source = LightSourceAt(2)

\* C19: for every position (x, y) that x_in_bounds and y_in_bounds accept,
\* get_tile reads an index inside the tile array and returns the tile at
\* column x of row y: it does not panic and returns no tile of another row.
C19_InBoundsTileRead ==
    (map_call.op = "get_tile"
        /\ x_in_bounds(map_call.args[1].x)
        /\ y_in_bounds(map_call.args[1].y)) =>
        LET x == map_call.args[1].x
            y == map_call.args[1].y IN
        /\ ~map_call.panicked
        /\ x + y * map.width < Len(map.tiles)
        /\ x < map.width /\ y < map.height
        /\ map_call.ret = map.tiles[y * map.width + x + 1]

\* C20: render_objects discards what frustum_query_result held on entry: after
\* every call, with culling and with the bypass, the vector holds exactly the
\* keys the spatial index reports for the frustum of that call.
C20_FrustumQueryResultFresh ==
    map_call.op = "render_objects" =>
        LET frustum == map_call.args[1]
            reported == map.object_kdtree \cap frustum IN
        /\ Len(frustum_query_result) = Cardinality(reported)
        /\ {frustum_query_result[i] : i \in 1..Len(frustum_query_result)} = reported

\* The vector held key 1 on entry; the call, whose frustum meets key 2 only,
\* left key 2 alone in it.
C20_Witness ==
    /\ map_call.op = "render_objects"
    /\ map_call.args[3] = <<1>>
    /\ map.object_kdtree = {1, 2}
    /\ map_call.args[1] = {2}
    /\ frustum_query_result = <<2>>

\* C21: water_light never panics and issues exactly one water_light call on
\* the renderer, with the stored water level when the water settings and
\* their level are both present and with 0.0 when either is missing;
\* render_water issues exactly one draw when the map has a water vertex
\* buffer and none when it has not.
C21_WaterCalls ==
    /\ map_call.op = "water_light" =>
          /\ ~map_call.panicked
          /\ Len(draws) = 1
          /\ draws[1].call = "water_light"
          /\ draws[1].water_level =
                (IF map.water_settings # None /\ map.water_settings[1].water_level # None
                 THEN map.water_settings[1].water_level[1]
                 ELSE Num(FALSE, 0, 0))
    /\ map_call.op = "render_water" =>
          /\ ~map_call.panicked
          /\ IF map.water_vertex_buffer # None
             THEN /\ Len(draws) = 1
                  /\ draws[1].call = "render_water"
                  /\ draws[1].water_vertex_buffer = map.water_vertex_buffer[1]
             ELSE draws = <<>>

\* water_light was called on a map whose water settings have no level, and
\* passed 0.0 to the renderer.
C21_Witness ==
    /\ map_call.op = "water_light"
    /\ map.water_settings # None
    /\ map.water_settings[1].water_level = None
    /\ ~map_call.panicked
    /\ Len(draws) = 1
    /\ draws[1].water_level = Num(FALSE, 0, 0)

LightInit ==
    /\ TargetsNew
    /\ MapIdle
    /\ nan_sign \in BOOLEAN
    /\ light_args \in [color : BaseColors, intensity : Intensities, day_timer : DayTimers]
    /\ light_call = LightCall("none", <<>>, None)
    /\ ReadIdle

LightNext ==
    \/ GetDirectionalLightColorIntensity
    \/ GetLightDirection

LightSpec == LightInit /\ [][LightNext]_vars

(***************************************************************************)
(* Properties of the lighting functions (checked under LightSpec).         *)
(***************************************************************************)
\* The channels Color::rgb_u8 can produce.
U8Channels == {RgbU8(n, n, n).red : n \in 0..255}

\* 0 <= x <= 1
InUnitInterval(x) == ~IsNaN(x) /\ ~Less(x, Zero) /\ ~Less(One, x)

\* C9 as claimed: for every day_timer and every stored intensity the returned
\* intensity is min(intensity * 1.5, 1.0) on both branches and lies in [0, 1],
\* and every returned colour channel is an 8-bit value.
C9_IntensityInUnitInterval ==
    light_call.op = "get_directional_light_color_intensity" =>
        LET intensity == light_call.args[2]
            color == light_call.ret[1]
            returned == light_call.ret[2] IN
        /\ returned = Min(Mul(intensity, Num(FALSE, 1500, -3)), One)
        /\ InUnitInterval(returned)
        /\ color.red \in U8Channels /\ color.green \in U8Channels /\ color.blue \in U8Channels

\* C9, amended: the returned intensity is min(intensity * 1.5, 1.0) on both
\* branches and never above 1.0; it lies in [0, 1] unless the stored intensity
\* is below zero; every returned colour channel is an 8-bit value.
C9_IntensityCapped ==
    light_call.op = "get_directional_light_color_intensity" =>
        LET intensity == light_call.args[2]
            color == light_call.ret[1]
            returned == light_call.ret[2] IN
        /\ returned = Min(Mul(intensity, Num(FALSE, 1500, -3)), One)
        /\ ~IsNaN(returned) /\ ~Less(One, returned)
        /\ ~Less(intensity, Zero) => InUnitInterval(returned)
        /\ color.red \in U8Channels /\ color.green \in U8Channels /\ color.blue \in U8Channels

\* The moon branch was taken (the sun channel is negative at day_timer = 4)
\* with a stored intensity of 2, and the intensity returned is 1.
C9_Witness ==
    /\ light_call.op = "get_directional_light_color_intensity"
    /\ light_call.args[3] = Num(FALSE, 4000, -3)
    /\ light_call.args[2] = Two
    /\ light_call.ret[2] = One
    /\ light_call.ret[1].blue \in U8Channels \ {Zero}

\* C10: get_light_direction returns a vector whose third component is -0.5,
\* whose first is sin(day_timer - pi/2) and whose second is cos(day_timer -
\* pi/2) when that is sign-positive and its negation otherwise, so that the
\* second component never has the sign bit set.
C10_LightDirection ==
    light_call.op = "get_light_direction" =>
        LET day_timer == light_call.args[1]
            c == CosOfSum(day_timer, Neg(FRAC_PI_2))
            direction == light_call.ret IN
        /\ direction[3] = Num(TRUE, 5000, -4)
        /\ direction[1] = SinOfSum(day_timer, Neg(FRAC_PI_2))
        /\ direction[2] = (IF c.neg THEN Neg(c) ELSE c)
        /\ ~direction[2].neg

\* day_timer = 0: the cosine of -pi/2 is a small negative f32, returned negated.
C10_Witness ==
    /\ light_call.op = "get_light_direction"
    /\ light_call.args[1] = Zero
    /\ CosOfSum(Zero, Neg(FRAC_PI_2)).neg
    /\ light_call.ret = Vector3(Num(TRUE, 1000, -3), Num(FALSE, 4371, -11), Num(TRUE, 5000, -4))

(***************************************************************************)
(* The picker value read-back (checked under ReadSpec): the caller's calls *)
(* of queue_read_picker_value interleaved with the GPU and the completion  *)
(* of the queued mappings.                                                 *)
(***************************************************************************)
ReadInit ==
    /\ TargetsNew
    /\ MapIdle
    /\ LightIdle
    /\ return_values \in [Cells -> PickerValues]
    /\ queued_reads = <<>>

ReadNext ==
    \/ \E return_value \in Cells : PickerQueueReadPickerValue(return_value)
    \/ \E i \in 1..MaxQueued : ReadCompletes(i)
    \/ \E value \in PickerValues : GpuWritesPickerValue(value)

ReadSpec == ReadInit /\ [][ReadNext]_vars

\* C13: queue_read_picker_value(dest) does not write dest: in every
\* interleaving of the caller, the GPU and the completions, a cell changes
\* only in a step in which a read-back queued for it completes, and then to
\* the value the buffer holds; without a completion it keeps its value.
C13_WrittenOnlyOnCompletion ==
    [][\A cell \in Cells :
          return_values'[cell] # return_values[cell] =>
              /\ Len(queued_reads') = Len(queued_reads) - 1
              /\ \E i \in 1..Len(queued_reads) :
                    /\ queued_reads[i] = cell
                    /\ queued_reads' = RemoveAt(queued_reads, i)
              /\ return_values'[cell] = picker.buffer.value]_vars

\* A read-back into cell 1 is queued and not completed, the buffer holds
\* another value than the cell, and the cell has not been written.
C13_Witness ==
    /\ queued_reads = <<1>>
    /\ picker.buffer.value = 2
    /\ return_values[1] = 1

====
